---- MODULE Spec2Model ----
(***************************************************************************)
(* Model of the three hero-scene variants of 21stDev-Sphere:               *)
(*   part_000     src/unnamed/part_000   (AI core sphere, camera drift)    *)
(*   part_001     src/unnamed/part_001   (AI core sphere, scanning ring)   *)
(*   AIHeroScene  src/src/components/AIHeroScene.tsx  (neural chip)        *)
(*                                                                         *)
(* Numbers.  The generator state s is an exact integer.  A draw is the     *)
(* rational (s-1)/2147483646; floors and threshold tests on a draw are     *)
(* computed exactly on s.  Continuous quantities are fixed-point integers  *)
(* in micro-units (1.0 = 1000000); where a draw enters one, the draw is    *)
(* truncated to three decimals (RandMilli).  Math.sin is a table of        *)
(* samples in milli-units covering [-1,1]; Math.random is a sample of      *)
(* [0,1) in milli-units.  IEEE rounding of the last bit is not modelled.   *)
(***************************************************************************)
EXTENDS Integers, Sequences, FiniteSets, TLC

(* ------------------------------------------------------------------ *)
(* Bounds of the model                                                  *)
(* ------------------------------------------------------------------ *)
\* mounts of a view that a behaviour may perform
MaxMounts == 2
\* largest elapsed time (whole seconds) a frame is run at
MaxTime == 1
\* re-renders counted per mounted view
MaxRenders == 2

VARIABLES
  variant,   \* the scene file whose default export is mounted
  pc,        \* "idle", "render", "panels", "renderB", "commit", "greebles", "mounted"
  mounts,    \* mounts of the view so far
  renders,   \* renders committed in this mounted view
  rng,       \* state s of the generator of the loop being run
  memo,      \* hook -> [set, deps]: what useMemo / useLayoutEffect remembers
  ids,       \* hook -> identity of the object it returned
  runs,      \* generator -> times it ran in this mounted view
  geo,       \* the generated geometry, by name
  loop,      \* [i, idx, written]: position of the MicroGreebles loop, indices written
  emissive,  \* emissiveIntensity of each energy panel, as rendered
  refs,      \* the refs that are attached
  anim,      \* parameter -> value, the properties the frame callbacks animate
  wlog,      \* parameter -> the callbacks that wrote it in the last frame
  framed,    \* whether a frame has run in this mounted view
  clock,     \* elapsed time of the last frame
  first      \* [set, geo, emissive] of the first mounted view

vars == <<variant, pc, mounts, renders, rng, memo, ids, runs, geo, loop, emissive,
          refs, anim, wlog, framed, clock, first>>

(* ------------------------------------------------------------------ *)
(* seededRandom                                                         *)
(* ------------------------------------------------------------------ *)
Variants == {"part_000", "part_001", "AIHeroScene"}

\* 2147483646, the divisor of a draw
Divisor == 2147483646

\* 16807 * s without leaving 32 bits: 2147483647 = 16807 * 127773 + 2836
LcgStep(s) ==
  LET t == 16807 * (s % 127773) - 2836 * (s \div 127773)
  IN  IF t > 0 THEN t ELSE t + 2147483647

\* (a generator that returns a value without storing the new state)
NextSeedStuck(s) == s
\* s = (s * 16807) % 2147483647
NextSeed(s) == LcgStep(s)

\* (a generator whose state is shared by all mounts starts a later mount elsewhere)
SeedShared(seed) == seed + mounts - 1
\* let s = seed
SeededRandom(seed) == seed

\* the numerator s - 1 of the value a call returns, after the state moved to s
Draw(s) == s - 1

\* Math.floor(rand() * n), exact: floor(n * x / Divisor) for x = Draw(s)
MulFloor(x, n) ==
  LET q  == Divisor \div n
      r  == Divisor % n
      f0 == x \div q
      th == f0 * q + ((f0 * r + n - 1) \div n)
  IN  IF x >= th THEN f0 ELSE f0 - 1

FloorRand(s, n) == MulFloor(Draw(s), n)

\* rand() > num/den, exact: Draw(s) > floor(Divisor * num / den)
RandGreater(s, num, den) ==
  Draw(s) > num * (Divisor \div den) + ((num * (Divisor % den)) \div den)

\* the draw truncated to three decimals, in milli-units 0..999
RandMilli(s) == MulFloor(Draw(s), 1000)

\* the states after each of the first n calls of a generator whose state is s
\* (the chain s1 = NextSeed(s), s2 = NextSeed(s1), ..., built by halves)
RECURSIVE Seeds(_, _)
Seeds(s, n) ==
  IF n = 0 THEN <<>>
  ELSE IF n = 1 THEN <<NextSeed(s)>>
  ELSE LET h == n \div 2
           a == Seeds(s, h)
       IN  a \o Seeds(a[h], n - h)

(* ------------------------------------------------------------------ *)
(* Library geometry the generators read                                 *)
(* ------------------------------------------------------------------ *)
\* icoGeo.attributes.position.count of IcosahedronGeometry(2.0, 1): 80 faces * 3
PosCount == 240
\* edgesGeo.attributes.position.count of EdgesGeometry(icoGeo): 120 edges * 2
EdgeVertexCount == 240

(* ------------------------------------------------------------------ *)
(* AICoreSphere generators (part_000, part_001)                         *)
(* ------------------------------------------------------------------ *)
\* (a mid band whose green gain is doubled)
EdgeColor000Hot(s) ==
  LET b == RandMilli(s)
  IN  IF RandGreater(s, 3, 4) THEN <<150000, 1000000, 850000>>
      ELSE IF RandGreater(s, 2, 5)
           THEN <<50000, 600000 + b * 600, 500000 + b * 200>>
           ELSE <<20000, 250000 + b * 200, 220000 + b * 150>>
\* one vertex colour from the draw b, part_000
EdgeColor000(s) ==
  LET b == RandMilli(s)
  IN  IF RandGreater(s, 3, 4) THEN <<150000, 1000000, 850000>>
      ELSE IF RandGreater(s, 2, 5)
           THEN <<50000, 600000 + b * 300, 500000 + b * 200>>
           ELSE <<20000, 250000 + b * 200, 220000 + b * 150>>

\* one vertex colour from the draw b, part_001
EdgeColor001(s) ==
  IF RandGreater(s, 4, 5) THEN <<400000, 1000000, 1000000>>
  ELSE IF RandGreater(s, 2, 5) THEN <<0, 800000, 800000>>
       ELSE <<0, 300000, 300000>>

EdgeColor(v, s) == IF v = "part_000" THEN EdgeColor000(s) ELSE EdgeColor001(s)

\* the colour BufferAttribute: new Float32Array(count * 3), itemSize 3
EdgeColors(v) ==
  LET count == EdgeVertexCount
      seeds == Seeds(SeededRandom(42), count)
  IN  [array    |-> [j \in 1..(count * 3) |->
                       EdgeColor(v, seeds[((j - 1) \div 3) + 1])[((j - 1) % 3) + 1]],
       itemSize |-> 3]

\* const totalFaces = pos.count / 3
TotalFaces == PosCount \div 3

\* the panel seed and the number of panels wanted
PanelSeed(v) == IF v = "part_000" THEN 77 ELSE 123
PanelsWanted(v) == IF v = "part_000" THEN 3 ELSE 4

\* while (faceIndices.size < N)
PanelLoopCond(v, faces) == Len(faces) < PanelsWanted(v)

InSeq(x, sq) == \E k \in 1..Len(sq) : sq[k] = x

\* faceIndices.add(f): a Set keeps insertion order and ignores a repeat
SetAdd(faces, f) == IF InSeq(f, faces) THEN faces ELSE Append(faces, f)

\* Array.from(faceIndices).map(fi => ...): the three vertices read at fi * 3
PanelGeos(faces) ==
  [k \in 1..Len(faces) |->
     [face |-> faces[k],
      verts |-> <<faces[k] * 3, faces[k] * 3 + 1, faces[k] * 3 + 2>>]]

\* (a beam laid from the vertex towards the centre)
BeamInward(v, s1, s2, s3, s4) ==
  IF v = "part_000"
  THEN [idx     |-> FloorRand(s1, PosCount),
        len     |-> -(3000000 + RandMilli(s2) * 4000),
        hue     |-> 470000 + RandMilli(s3) * 60,
        opacity |-> 350000 + RandMilli(s4) * 300]
  ELSE [idx     |-> FloorRand(s1, PosCount),
        len     |-> -(4000000 + RandMilli(s2) * 5000),
        hue     |-> 500000 + RandMilli(s3) * 100,
        opacity |-> 100000 + RandMilli(s4) * 400]
\* the beam count, and the beams built from the generator seeded 200
BeamCount(v) == IF v = "part_000" THEN 10 ELSE 15
Beam(v, s1, s2, s3, s4) ==
  IF v = "part_000"
  THEN [idx     |-> FloorRand(s1, PosCount),
        len     |-> 3000000 + RandMilli(s2) * 4000,
        hue     |-> 470000 + RandMilli(s3) * 60,
        opacity |-> 350000 + RandMilli(s4) * 300]
  ELSE [idx     |-> FloorRand(s1, PosCount),
        len     |-> 4000000 + RandMilli(s2) * 5000,
        hue     |-> 500000 + RandMilli(s3) * 100,
        opacity |-> 100000 + RandMilli(s4) * 400]

BeamObjects(v) ==
  LET seeds == Seeds(SeededRandom(200), 4 * BeamCount(v))
  IN  [i \in 1..BeamCount(v) |->
         Beam(v, seeds[4 * i - 3], seeds[4 * i - 2], seeds[4 * i - 1], seeds[4 * i])]

\* the radius of IcosahedronGeometry(2.0, 1): the length of every vertex v
IcoRadius == 2000000

\* the end points of a beam as signed distances from the origin along dir = v / |v|:
\* start = v * 0.95, end = v + dir * len
BeamStart(b) == (95 * IcoRadius) \div 100
BeamEnd(b) == IcoRadius + b.len

(* ------------------------------------------------------------------ *)
(* NeuralChip generators (AIHeroScene.tsx)                              *)
(* ------------------------------------------------------------------ *)
\* addPin(x, y, w, h): two triangles, six vertices, z = 0
AddPin(x, y, w, h) ==
  << <<x - w, y - h, 0>>, <<x + w, y - h, 0>>, <<x + w, y + h, 0>>,
     <<x - w, y - h, 0>>, <<x + w, y + h, 0>>, <<x - w, y + h, 0>> >>

\* pins per side
PinCount == 100

\* (offsets spaced by i / count instead of i / (count - 1))
PinOffsetSkewed(i) == (2 * i - PinCount) * 16100
\* offset = (i / (count - 1) - 0.5) * size * 0.99, with size = 3.22:
\* (2i - 99) / 198 * 3.1878 = (2i - 99) * 0.0161
PinOffset(i) == (2 * i - (PinCount - 1)) * 16100

\* the four pins pushed for one i: top, bottom, right, left
PinsAt(i) ==
  AddPin(PinOffset(i), 1670000, 12000, 120000) \o
  AddPin(PinOffset(i), -1670000, 12000, 120000) \o
  AddPin(1670000, PinOffset(i), 120000, 12000) \o
  AddPin(-1670000, PinOffset(i), 120000, 12000)

\* the vertices of pinsGeo, in push order
PinsGeo ==
  [j \in 1..(PinCount * 24) |-> PinsAt((j - 1) \div 24)[((j - 1) % 24) + 1]]

\* Math.round(y) = floor(y + 0.5) for y = (rand() - 0.5) * (k / 10), in tenths:
\* floor((k * b - (k / 2 - 5)) / 10)
RoundScaled(s, k) == (MulFloor(Draw(s), k) - ((k \div 2) - 5)) \div 10

\* (a trace whose end point is drawn from a square of side 1.2)
CircuitTraceWide(vt, s1, s2, s3, s4) ==
  LET startEdge == FloorRand(s1, 4)
      offset    == RoundScaled(s2, 28 * vt) * 100000
      startX    == IF startEdge = 0 THEN offset
                   ELSE IF startEdge = 1 THEN 1300000
                   ELSE IF startEdge = 2 THEN offset ELSE -1300000
      startY    == IF startEdge = 0 THEN 1300000
                   ELSE IF startEdge = 1 THEN offset
                   ELSE IF startEdge = 2 THEN -1300000 ELSE offset
      endX      == RoundScaled(s3, 120) * 100000
      endY      == RoundScaled(s4, 120) * 100000
  IN  << <<startX, startY, 0>>, <<startX, endY, 0>>, <<startX, endY, 0>>,
         <<endX, endY, 0>> >>
\* (a trace whose corner point is not shared by its two segments)
CircuitTraceBroken(vt, s1, s2, s3, s4) ==
  LET startEdge == FloorRand(s1, 4)
      offset    == RoundScaled(s2, 28 * vt) * 100000
      startX    == IF startEdge = 0 THEN offset
                   ELSE IF startEdge = 1 THEN 1300000
                   ELSE IF startEdge = 2 THEN offset ELSE -1300000
      startY    == IF startEdge = 0 THEN 1300000
                   ELSE IF startEdge = 1 THEN offset
                   ELSE IF startEdge = 2 THEN -1300000 ELSE offset
      endX      == RoundScaled(s3, 80) * 100000
      endY      == RoundScaled(s4, 80) * 100000
  IN  << <<startX, startY, 0>>, <<startX, endY, 0>>, <<endX, startY, 0>>,
         <<endX, endY, 0>> >>
\* one trace of createCircuitGeo: p1, p2, p2, p3 (variance vt in tenths)
CircuitTrace(vt, s1, s2, s3, s4) ==
  LET startEdge == FloorRand(s1, 4)
      offset    == RoundScaled(s2, 28 * vt) * 100000
      startX    == IF startEdge = 0 THEN offset
                   ELSE IF startEdge = 1 THEN 1300000
                   ELSE IF startEdge = 2 THEN offset ELSE -1300000
      startY    == IF startEdge = 0 THEN 1300000
                   ELSE IF startEdge = 1 THEN offset
                   ELSE IF startEdge = 2 THEN -1300000 ELSE offset
      endX      == RoundScaled(s3, 80) * 100000
      endY      == RoundScaled(s4, 80) * 100000
      p1        == <<startX, startY, 0>>
      p2        == <<startX, endY, 0>>
      p3        == <<endX, endY, 0>>
  IN  <<p1, p2, p2, p3>>

\* createCircuitGeo(count, variance, seed): the points of the geometry
CreateCircuitGeo(count, vt, seed) ==
  LET seeds == Seeds(SeededRandom(seed), 4 * count)
  IN  [j \in 1..(4 * count) |->
         LET i == (j - 1) \div 4
         IN  CircuitTrace(vt, seeds[4 * i + 1], seeds[4 * i + 2],
                          seeds[4 * i + 3], seeds[4 * i + 4])[((j - 1) % 4) + 1]]

\* instances the instancedMesh is allocated for
GreebleCount == 200

\* (greebles of the rows spread over the whole width of the substrate)
GreebleMatrixScattered(i, s1, s2, s3, s4) ==
  LET sgn(s) == IF RandGreater(s, 1, 2) THEN 1 ELSE -1
      x == IF i < 100 THEN (RandMilli(s1) - 500) * 3200
           ELSE sgn(s1) * (1000000 + RandMilli(s2) * 400)
      y == IF i < 100 THEN sgn(s2) * (1000000 + RandMilli(s3) * 400)
           ELSE (RandMilli(s3) - 500) * 2800
  IN  [x |-> x, y |-> y, z |-> 80000 + (20000 \div 2),
       sx |-> 40000, sy |-> 80000, sz |-> 20000,
       rz |-> IF RandGreater(s4, 1, 2) THEN 0 ELSE 1570796]
\* (rows that start 0.6 from the centre line instead of 1.0)
GreebleMatrixCentred(i, s1, s2, s3, s4) ==
  LET sgn(s) == IF RandGreater(s, 1, 2) THEN 1 ELSE -1
      x == IF i < 100 THEN (RandMilli(s1) - 500) * 2800
           ELSE sgn(s1) * (1000000 + RandMilli(s2) * 400)
      y == IF i < 100 THEN sgn(s2) * (600000 + RandMilli(s3) * 400)
           ELSE (RandMilli(s3) - 500) * 2800
  IN  [x |-> x, y |-> y, z |-> 80000 + (20000 \div 2),
       sx |-> 40000, sy |-> 80000, sz |-> 20000,
       rz |-> IF RandGreater(s4, 1, 2) THEN 0 ELSE 1570796]
\* one iteration of the MicroGreebles loop: the matrix composed from dummy
GreebleMatrix(i, s1, s2, s3, s4) ==
  LET sgn(s) == IF RandGreater(s, 1, 2) THEN 1 ELSE -1
      x == IF i < 100 THEN (RandMilli(s1) - 500) * 2800
           ELSE sgn(s1) * (1000000 + RandMilli(s2) * 400)
      y == IF i < 100 THEN sgn(s2) * (1000000 + RandMilli(s3) * 400)
           ELSE (RandMilli(s3) - 500) * 2800
  IN  [x |-> x, y |-> y, z |-> 80000 + (20000 \div 2),
       sx |-> 40000, sy |-> 80000, sz |-> 20000,
       rz |-> IF RandGreater(s4, 1, 2) THEN 0 ELSE 1570796]

\* NetworkLines: 40 segments, three draws each (angle in micro-radians)
NetworkLines ==
  LET seeds == Seeds(SeededRandom(555), 3 * 40)
  IN  [i \in 1..40 |->
         [angle  |-> RandMilli(seeds[3 * i - 2]) * 6283,
          radius |-> 2000000,
          z      |-> (RandMilli(seeds[3 * i - 1]) - 500) * 200,
          length |-> 4000000 + RandMilli(seeds[3 * i]) * 6000]]

(* ------------------------------------------------------------------ *)
(* ParticleField (all three variants)                                   *)
(* ------------------------------------------------------------------ *)
ParticleCount(v) == IF v = "part_000" THEN 500 ELSE 400

\* (the y and z factors of part_001 exchanged)
ParticleScaleSwapped(v, k) ==
  IF v = "part_000" THEN <<25000, 16000, 20000>>[k + 1]
  ELSE IF v = "part_001" THEN <<30000, 15000, 20000>>[k + 1]
  ELSE <<30000, 20000, 15000>>[k + 1]
\* the factor (milli to micro) of component k = 0, 1, 2
ParticleScale(v, k) ==
  IF v = "part_000" THEN <<25000, 16000, 20000>>[k + 1]
  ELSE <<30000, 20000, 15000>>[k + 1]

\* arr[i * 3 + k] = (rand() - 0.5) * scale
ParticlePositions(v) ==
  LET n     == 3 * ParticleCount(v)
      seeds == Seeds(SeededRandom(999), n)
  IN  [j \in 1..n |-> (RandMilli(seeds[j]) - 500) * ParticleScale(v, (j - 1) % 3)]

(* ------------------------------------------------------------------ *)
(* Hooks: useMemo, useLayoutEffect, refs                                *)
(* ------------------------------------------------------------------ *)
IsSphere(v) == v \in {"part_000", "part_001"}

\* the hooks of a scene, useMemo callbacks and the MicroGreebles layout effect
Hooks(v) ==
  IF IsSphere(v)
  THEN {"icoGeo", "smoothGeo", "edgesGeo", "edgeColors", "panelGeos", "beamObjects",
        "positions"}
  ELSE {"dummy", "chipBaseGeo", "pinsGeo", "denseCircuitGeo", "activeCircuitGeo",
        "linesGeo", "positions", "greebles"}

\* the refs a scene attaches when it commits
Refs(v) ==
  IF v = "part_000"
  THEN {"groupRef", "panelLightRef", "innerGlowRef", "keyRef", "rimRef", "pointsRef"}
  ELSE IF v = "part_001"
  THEN {"groupRef", "panelLightRef", "innerGlowRef", "orbitRingRef", "pointsRef"}
  ELSE {"meshRef", "groupRef", "coreLightRef", "movLight", "pointsRef"}

NoId == <<0, 0>>
\* the identity of an object created by the render pass under way
NewId == <<mounts, renders + 1>>

\* (a hook called without a stable dependency array recomputes on every render)
DepsChangedAlways(old, new) == TRUE
\* React keeps the memoised value unless a dependency is another object
DepsChanged(old, new) == old # new

Stale(cell, deps) == ~cell.set \/ DepsChanged(cell.deps, deps)

ZeroMatrix == [x |-> 0, y |-> 0, z |-> 0, sx |-> 0, sy |-> 0, sz |-> 0, rz |-> 0]

\* nothing generated yet; the instancedMesh is allocated with count instances
EmptyGeo(v) ==
  IF IsSphere(v)
  THEN [edgeColors |-> [array |-> <<>>, itemSize |-> 0], faceIndices |-> <<>>,
        panelGeos |-> <<>>, beamObjects |-> <<>>, positions |-> <<>>]
  ELSE [pinsGeo |-> <<>>, denseCircuitGeo |-> <<>>, activeCircuitGeo |-> <<>>,
        linesGeo |-> <<>>, positions |-> <<>>,
        matrices |-> [k \in 0..(GreebleCount - 1) |-> ZeroMatrix],
        capacity |-> GreebleCount, count |-> GreebleCount, needsUpdate |-> FALSE]

EmptyLoop == [i |-> 0, idx |-> 0, written |-> <<>>]

(* ------------------------------------------------------------------ *)
(* Mounting: render, panel loop, commit, greeble loop                   *)
(* ------------------------------------------------------------------ *)
Init ==
  /\ variant \in Variants
  /\ pc = "idle"
  /\ mounts = 0
  /\ renders = 0
  /\ rng = 0
  /\ memo = [h \in Hooks(variant) |-> [set |-> FALSE, deps |-> <<>>]]
  /\ ids = [h \in Hooks(variant) |-> NoId]
  /\ runs = [h \in Hooks(variant) |-> 0]
  /\ geo = EmptyGeo(variant)
  /\ loop = EmptyLoop
  /\ emissive = <<>>
  /\ refs = {}
  /\ anim = <<>>
  /\ wlog = <<>>
  /\ framed = FALSE
  /\ clock = 0
  /\ first = [set |-> FALSE, geo |-> EmptyGeo(variant), emissive |-> <<>>]

\* the Canvas mounts the scene: every hook starts empty
Mount ==
  /\ pc = "idle"
  /\ mounts < MaxMounts
  /\ mounts' = mounts + 1
  /\ pc' = "render"
  /\ UNCHANGED <<variant, renders, rng, memo, ids, runs, geo, loop, emissive, refs, anim,
                 wlog, framed, clock, first>>

\* what a pass over the hooks hs (with dependencies deps) leaves in memo, ids, runs
Memoised(hs, deps, stale) ==
  /\ memo' = [h \in DOMAIN memo |->
                IF h \in hs THEN [set |-> TRUE, deps |-> deps[h]] ELSE memo[h]]
  /\ ids' = [h \in DOMAIN ids |-> IF h \in stale THEN NewId ELSE ids[h]]
  /\ runs' = [h \in DOMAIN runs |-> IF h \in stale THEN runs[h] + 1 ELSE runs[h]]

\* AICoreSphere up to the panel loop: icoGeo, smoothGeo, edgesGeo, edge colours
RenderSphereA ==
  LET sIco    == Stale(memo["icoGeo"], <<>>)
      icoId   == IF sIco THEN NewId ELSE ids["icoGeo"]
      sSmooth == Stale(memo["smoothGeo"], <<>>)
      sEdges  == Stale(memo["edgesGeo"], <<icoId>>)
      edgesId == IF sEdges THEN NewId ELSE ids["edgesGeo"]
      sCol    == Stale(memo["edgeColors"], <<edgesId>>)
      sPan    == Stale(memo["panelGeos"], <<icoId>>)
      hs      == {"icoGeo", "smoothGeo", "edgesGeo", "edgeColors"}
      deps    == [h \in hs |->
                    IF h = "edgesGeo" THEN <<icoId>>
                    ELSE IF h = "edgeColors" THEN <<edgesId>> ELSE <<>>]
      stale   == {h \in hs : \/ h = "icoGeo" /\ sIco
                             \/ h = "smoothGeo" /\ sSmooth
                             \/ h = "edgesGeo" /\ sEdges
                             \/ h = "edgeColors" /\ sCol}
  IN  /\ Memoised(hs, deps, stale)
      /\ geo' = [geo EXCEPT
                   !.edgeColors = IF sCol THEN EdgeColors(variant) ELSE @,
                   !.faceIndices = IF sPan THEN <<>> ELSE @]
      /\ rng' = IF sPan THEN SeededRandom(PanelSeed(variant)) ELSE rng
      /\ pc' = IF sPan THEN "panels" ELSE "renderB"
      /\ UNCHANGED <<emissive>>

\* NeuralChip, MicroGreebles, NetworkLines, ParticleField: every useMemo
RenderChip ==
  LET hs    == Hooks(variant) \ {"greebles"}
      stale == {h \in hs : Stale(memo[h], <<>>)}
      deps  == [h \in hs |-> <<>>]
  IN  /\ Memoised(hs, deps, stale)
      /\ geo' = [geo EXCEPT
                   !.pinsGeo = IF "pinsGeo" \in stale THEN PinsGeo ELSE @,
                   !.denseCircuitGeo =
                      IF "denseCircuitGeo" \in stale
                      THEN CreateCircuitGeo(80, 3, 42) ELSE @,
                   !.activeCircuitGeo =
                      IF "activeCircuitGeo" \in stale
                      THEN CreateCircuitGeo(20, 6, 99) ELSE @,
                   !.linesGeo = IF "linesGeo" \in stale THEN NetworkLines ELSE @,
                   !.positions =
                      IF "positions" \in stale THEN ParticlePositions(variant) ELSE @]
      /\ pc' = "commit"
      /\ UNCHANGED <<rng, emissive>>

\* the component functions run, up to the panel loop
RenderA ==
  /\ pc = "render"
  /\ IF IsSphere(variant) THEN RenderSphereA ELSE RenderChip
  /\ UNCHANGED <<variant, mounts, renders, loop, refs, anim, wlog, framed, clock, first>>

\* (the face drawn among the vertices instead of the faces)
PanelFaceOfVertices(s) == FloorRand(s, PosCount)
\* Math.floor(rand() * totalFaces)
PanelFace(s) == FloorRand(s, TotalFaces)

\* one pass of while (faceIndices.size < N) faceIndices.add(...)
PanelStep ==
  /\ pc = "panels"
  /\ PanelLoopCond(variant, geo.faceIndices)
  /\ rng' = NextSeed(rng)
  /\ geo' = [geo EXCEPT !.faceIndices = SetAdd(@, PanelFace(rng'))]
  /\ UNCHANGED <<variant, pc, mounts, renders, memo, ids, runs, loop, emissive, refs,
                 anim, wlog, framed, clock, first>>

\* samples of Math.random(), in milli-units of [0, 1)
RandomSamples == <<0, 500, 999>>
RandomAt(k, i) == RandomSamples[((k + i) % 3) + 1]

\* emissiveIntensity of panel i (from 0), as the JSX computes it in a render
EmissiveIntensity(v, i, k) ==
  IF v = "part_000" THEN 4000000 - i * 800000 ELSE 8000000 + RandomAt(k, i) * 4000

\* the first write of every animated property: JSX props and constructors
InitialAnim(v, beams) ==
  LET beamPs == {<<"beam.opacity", i>> : i \in 0..(Len(beams) - 1)}
      named  ==
        IF v = "part_000"
        THEN {"group.rotation.y", "group.rotation.x", "group.position.y",
              "panelLight.intensity", "innerGlow.opacity", "rimLight.intensity",
              "keyLight.intensity", "camera.position.x", "camera.position.y",
              "camera.position.z", "camera.lookAt.x", "camera.lookAt.y",
              "camera.lookAt.z", "points.rotation.y", "points.rotation.x"}
        ELSE IF v = "part_001"
        THEN {"group.rotation.y", "group.rotation.x", "orbitRing.rotation.z",
              "orbitRing.rotation.x", "panelLight.intensity", "innerGlow.opacity",
              "points.rotation.y", "points.position.y"}
        ELSE {"group.rotation.x", "group.rotation.y", "coreLight.intensity",
              "movLight.position.x", "movLight.position.z", "points.rotation.y"}
      value(n) ==
        IF v = "part_000"
        THEN CASE n = "panelLight.intensity" -> 4000000
               [] n = "innerGlow.opacity" -> 60000
               [] n = "rimLight.intensity" -> 1800000
               [] n = "keyLight.intensity" -> 3500000
               [] n = "camera.position.z" -> 6000000
               [] OTHER -> 0
        ELSE IF v = "part_001"
        THEN CASE n = "panelLight.intensity" -> 1000000
               [] n = "innerGlow.opacity" -> 50000
               [] OTHER -> 0
        ELSE CASE n = "group.rotation.x" -> 400000
               [] n = "group.rotation.y" -> -200000
               [] n = "coreLight.intensity" -> 1000000
               [] n = "movLight.position.x" -> -10000000
               [] n = "movLight.position.z" -> 5000000
               [] OTHER -> 0
  IN  [p \in {<<n, 0>> : n \in named} \cup beamPs |->
         IF p[1] = "beam.opacity" THEN beams[p[2] + 1].opacity ELSE value(p[1])]

\* AICoreSphere after the panel loop: panelGeos, beamObjects; ParticleField; the JSX
RenderB ==
  /\ pc = "renderB" \/ (pc = "panels" /\ ~PanelLoopCond(variant, geo.faceIndices))
  /\ LET icoId == ids["icoGeo"]
         sPan  == Stale(memo["panelGeos"], <<icoId>>)
         sBeam == Stale(memo["beamObjects"], <<icoId>>)
         sPos  == Stale(memo["positions"], <<>>)
         hs    == {"panelGeos", "beamObjects", "positions"}
         deps  == [h \in hs |-> IF h = "positions" THEN <<>> ELSE <<icoId>>]
         stale == {h \in hs : \/ h = "panelGeos" /\ sPan
                              \/ h = "beamObjects" /\ sBeam
                              \/ h = "positions" /\ sPos}
         panels == IF sPan THEN PanelGeos(geo.faceIndices) ELSE geo.panelGeos
     IN  /\ Memoised(hs, deps, stale)
         /\ geo' = [geo EXCEPT
                      !.panelGeos = panels,
                      !.beamObjects = IF sBeam THEN BeamObjects(variant) ELSE @,
                      !.positions = IF sPos THEN ParticlePositions(variant) ELSE @]
         /\ \E k \in 0..2 :
              emissive' = [i \in 1..Len(panels) |-> EmissiveIntensity(variant, i - 1, k)]
  /\ pc' = "commit"
  /\ UNCHANGED <<variant, mounts, renders, rng, loop, refs, anim, wlog, framed, clock,
                 first>>

\* the view is complete: remember the first one
Settled(g, e) ==
  first' = IF first.set THEN first ELSE [set |-> TRUE, geo |-> g, emissive |-> e]

\* the refs the commit attaches
Attached(v) == Refs(v)

\* React commits with the refs rf attached: new objects get their props, layout
\* effects run
CommitWith(rf) ==
  /\ pc = "commit"
  /\ refs' = rf
  /\ renders' = renders + 1
  /\ anim' = IF renders = 0 THEN InitialAnim(variant, IF IsSphere(variant)
                                                       THEN geo.beamObjects ELSE <<>>)
             ELSE anim
  /\ wlog' = IF renders = 0 THEN [p \in DOMAIN anim' |-> <<>>] ELSE wlog
  /\ IF ~IsSphere(variant) /\ Stale(memo["greebles"], <<ids["dummy"]>>)
     THEN /\ memo' = [memo EXCEPT !["greebles"] = [set |-> TRUE, deps |-> <<ids["dummy"]>>]]
          /\ IF "meshRef" \in refs'
             THEN /\ pc' = "greebles"
                  /\ rng' = SeededRandom(1337)
                  /\ loop' = EmptyLoop
                  /\ runs' = [runs EXCEPT !["greebles"] = @ + 1]
                  /\ UNCHANGED first
             ELSE /\ pc' = "mounted"
                  /\ Settled(geo, emissive)
                  /\ UNCHANGED <<rng, loop, runs>>
     ELSE /\ pc' = "mounted"
          /\ Settled(geo, emissive)
          /\ UNCHANGED <<memo, rng, loop, runs>>
  /\ UNCHANGED <<variant, mounts, ids, geo, emissive, framed, clock>>

\* React commits: every ref of the scene is attached
Commit == CommitWith(Attached(variant))

\* the case the guards `if (ref.current)` provide for: the first commit of the first
\* mount leaves one ref of the scene null
CommitDetached ==
  /\ mounts = 1
  /\ renders = 0
  /\ \E r \in Refs(variant) : CommitWith(Attached(variant) \ {r})

\* meshRef.current.setMatrixAt(idx, m): a write past the buffer is dropped
SetMatrixAt(ms, cap, idx, m) == IF idx < cap THEN [ms EXCEPT ![idx] = m] ELSE ms

\* for (let i = 0; i < count; i++)
GreebleLoopCond(i) == i < GreebleCount

\* (an index advanced twice per iteration)
NextIdxSkip(idx) == idx + 2
\* idx++
NextIdx(idx) == idx + 1

\* one iteration of the MicroGreebles loop: four draws, one setMatrixAt(idx++, ...)
GreebleStep ==
  /\ pc = "greebles"
  /\ GreebleLoopCond(loop.i)
  /\ LET s1 == NextSeed(rng)
         s2 == NextSeed(s1)
         s3 == NextSeed(s2)
         s4 == NextSeed(s3)
     IN  /\ rng' = s4
         /\ geo' = [geo EXCEPT !.matrices =
                      SetMatrixAt(@, geo.capacity, loop.idx,
                                  GreebleMatrix(loop.i, s1, s2, s3, s4))]
         /\ loop' = [i |-> loop.i + 1, idx |-> NextIdx(loop.idx),
                     written |-> Append(loop.written, loop.idx)]
  /\ UNCHANGED <<variant, pc, mounts, renders, memo, ids, runs, emissive, refs, anim,
                 wlog, framed, clock, first>>

\* meshRef.current.count = idx; instanceMatrix.needsUpdate = true
GreebleDone ==
  /\ pc = "greebles"
  /\ ~GreebleLoopCond(loop.i)
  /\ geo' = [geo EXCEPT !.count = loop.idx, !.needsUpdate = TRUE]
  /\ Settled(geo', emissive)
  /\ pc' = "mounted"
  /\ UNCHANGED <<variant, mounts, renders, rng, memo, ids, runs, loop, emissive, refs,
                 anim, wlog, framed, clock>>

(* ------------------------------------------------------------------ *)
(* Frame callbacks                                                      *)
(* ------------------------------------------------------------------ *)
\* samples of Math.sin, in milli-units of [-1, 1]; ph is the frame's phase and every
\* call site has its own offset, so each site takes every sample
SinSamples == <<-1000, -500, 0, 500, 1000>>
Sin(ph, site) == SinSamples[((ph + site) % 5) + 1]
Cos(ph, site) == SinSamples[((5 - ((ph + site) % 5)) % 5) + 1]

W(name, i, value, cb) == <<(<<name, i>>), value, cb>>

\* part_000 AICoreSphere useFrame
SphereFrame000(t, ph, rf, nBeams) ==
  (IF "groupRef" \in rf
   THEN << W("group.rotation.y", 0, t * 60000, "AICoreSphere"),
           W("group.rotation.x", 0, Sin(ph, 0) * 80, "AICoreSphere"),
           W("group.position.y", 0, Sin(ph, 1) * 120, "AICoreSphere") >>
   ELSE <<>>) \o
  (IF "panelLightRef" \in rf
   THEN << W("panelLight.intensity", 0, 4000000 + Sin(ph, 2) * 1500, "AICoreSphere") >>
   ELSE <<>>) \o
  (IF "innerGlowRef" \in rf
   THEN << W("innerGlow.opacity", 0, 60000 + Sin(ph, 3) * 20, "AICoreSphere") >>
   ELSE <<>>) \o
  [i \in 1..nBeams |->
     W("beam.opacity", i - 1, 200000 + Sin(ph, 4 + i) * 200, "AICoreSphere")]

\* (scene lights that also drive the panel light of the sphere)
SceneLightsFrame000Extra(t, ph, rf) ==
  (IF "rimRef" \in rf
   THEN << W("rimLight.intensity", 0, 1800000 + Sin(ph, 5) * 400, "SceneLights"),
           W("panelLight.intensity", 0, 4000000, "SceneLights") >>
   ELSE <<>>) \o
  (IF "keyRef" \in rf
   THEN << W("keyLight.intensity", 0, 3500000 + Sin(ph, 6) * 300, "SceneLights") >>
   ELSE <<>>)

\* part_000 SceneLights useFrame
SceneLightsFrame000(t, ph, rf) ==
  (IF "rimRef" \in rf
   THEN << W("rimLight.intensity", 0, 1800000 + Sin(ph, 5) * 400, "SceneLights") >>
   ELSE <<>>) \o
  (IF "keyRef" \in rf
   THEN << W("keyLight.intensity", 0, 3500000 + Sin(ph, 6) * 300, "SceneLights") >>
   ELSE <<>>)

\* (a camera drift that also bobs the sphere group)
CameraDriftFrameShake(t, ph) ==
  << W("camera.position.x", 0, 300000 + Sin(ph, 7) * 250, "CameraDrift"),
     W("camera.position.y", 0, 50000 + Sin(ph, 8) * 180, "CameraDrift"),
     W("camera.position.z", 0, 6000000 + Sin(ph, 9) * 150, "CameraDrift"),
     W("camera.lookAt.x", 0, 1200000, "CameraDrift"),
     W("camera.lookAt.y", 0, 0, "CameraDrift"),
     W("camera.lookAt.z", 0, 0, "CameraDrift"),
     W("group.position.y", 0, 50000 + Sin(ph, 8) * 180, "CameraDrift") >>
\* (a camera that sways 0.35 to either side)
CameraDriftFrameWide(t, ph) ==
  << W("camera.position.x", 0, 300000 + Sin(ph, 7) * 350, "CameraDrift"),
     W("camera.position.y", 0, 50000 + Sin(ph, 8) * 180, "CameraDrift"),
     W("camera.position.z", 0, 6000000 + Sin(ph, 9) * 150, "CameraDrift"),
     W("camera.lookAt.x", 0, 1200000, "CameraDrift"),
     W("camera.lookAt.y", 0, 0, "CameraDrift"),
     W("camera.lookAt.z", 0, 0, "CameraDrift") >>
\* part_000 CameraDrift useFrame
CameraDriftFrame(t, ph) ==
  << W("camera.position.x", 0, 300000 + Sin(ph, 7) * 250, "CameraDrift"),
     W("camera.position.y", 0, 50000 + Sin(ph, 8) * 180, "CameraDrift"),
     W("camera.position.z", 0, 6000000 + Sin(ph, 9) * 150, "CameraDrift"),
     W("camera.lookAt.x", 0, 1200000, "CameraDrift"),
     W("camera.lookAt.y", 0, 0, "CameraDrift"),
     W("camera.lookAt.z", 0, 0, "CameraDrift") >>

\* (a particle field that drifts by rewriting its position buffer)
ParticleFrame000Drift(t, rf) ==
  IF "pointsRef" \in rf
  THEN << W("points.rotation.y", 0, t * 3000, "ParticleField"),
          W("positions", 0, t * 1000 + 1, "ParticleField") >>
  ELSE <<>>

\* part_000 ParticleField useFrame
ParticleFrame000(t, rf) ==
  IF "pointsRef" \in rf
  THEN << W("points.rotation.y", 0, t * 3000, "ParticleField"),
          W("points.rotation.x", 0, t * 1000, "ParticleField") >>
  ELSE <<>>

\* part_001 AICoreSphere useFrame (k1, k2 choose the Math.random() values)
SphereFrame001(t, ph, k1, k2, rf, nBeams) ==
  (IF "groupRef" \in rf
   THEN << W("group.rotation.y", 0, t * 40000, "AICoreSphere"),
           W("group.rotation.x", 0, Sin(ph, 0) * 50, "AICoreSphere") >>
   ELSE <<>>) \o
  (IF "orbitRingRef" \in rf
   THEN << W("orbitRing.rotation.z", 0, t * 100000, "AICoreSphere"),
           W("orbitRing.rotation.x", 0, 1570796 + Sin(ph, 1) * 100, "AICoreSphere") >>
   ELSE <<>>) \o
  (IF "panelLightRef" \in rf
   THEN << W("panelLight.intensity", 0,
             15000000 + Sin(ph, 2) * 2000 + RandomAt(k1, 0) * 2000, "AICoreSphere") >>
   ELSE <<>>) \o
  (IF "innerGlowRef" \in rf
   THEN << W("innerGlow.opacity", 0, 50000 + Sin(ph, 3) * 30, "AICoreSphere") >>
   ELSE <<>>) \o
  [i \in 1..nBeams |->
     W("beam.opacity", i - 1,
       100000 + Sin(ph, 4 + i) * 100 + RandomAt(k2, i) * 50, "AICoreSphere")]

\* (a particle field written without looking at its ref)
ParticleFrame001Unguarded(t, ph, rf) ==
  << W("points.rotation.y", 0, t * 20000, "ParticleField"),
     W("points.position.y", 0, Sin(ph, 5) * 500, "ParticleField") >>
\* part_001 ParticleField useFrame
ParticleFrame001(t, ph, rf) ==
  IF "pointsRef" \in rf
  THEN << W("points.rotation.y", 0, t * 20000, "ParticleField"),
          W("points.position.y", 0, Sin(ph, 5) * 500, "ParticleField") >>
  ELSE <<>>

\* (a core light whose breathing is deeper than its base level)
ChipFrameDeep(t, ph, rf) ==
  (IF "groupRef" \in rf
   THEN << W("group.rotation.x", 0, Sin(ph, 0) * 80, "NeuralChip"),
           W("group.rotation.y", 0, Sin(ph, 1) * 120, "NeuralChip") >>
   ELSE <<>>) \o
  (IF "coreLightRef" \in rf
   THEN << W("coreLight.intensity", 0, 2000000 + Sin(ph, 2) * 8000, "NeuralChip") >>
   ELSE <<>>)

\* AIHeroScene.tsx NeuralChip useFrame
ChipFrame(t, ph, rf) ==
  (IF "groupRef" \in rf
   THEN << W("group.rotation.x", 0, Sin(ph, 0) * 80, "NeuralChip"),
           W("group.rotation.y", 0, Sin(ph, 1) * 120, "NeuralChip") >>
   ELSE <<>>) \o
  (IF "coreLightRef" \in rf
   THEN << W("coreLight.intensity", 0, 8000000 + Sin(ph, 2) * 2000, "NeuralChip") >>
   ELSE <<>>)

\* AIHeroScene.tsx SceneLights useFrame
SceneLightsFrameChip(t, ph, rf) ==
  IF "movLight" \in rf
  THEN << W("movLight.position.x", 0, Sin(ph, 3) * 12000, "SceneLights"),
          W("movLight.position.z", 0, Cos(ph, 3) * 12000, "SceneLights") >>
  ELSE <<>>

\* AIHeroScene.tsx ParticleField useFrame
ParticleFrameChip(t, rf) ==
  IF "pointsRef" \in rf
  THEN << W("points.rotation.y", 0, t * 20000, "ParticleField") >>
  ELSE <<>>

\* the callbacks useFrame registered, in the order the components mount
Callbacks(v) ==
  IF v = "part_000" THEN <<"CameraDrift", "SceneLights", "AICoreSphere", "ParticleField">>
  ELSE IF v = "part_001" THEN <<"AICoreSphere", "ParticleField">>
  ELSE <<"SceneLights", "NeuralChip", "ParticleField">>

\* the writes of callback cb of scene v in a frame at time t
CallbackWrites(v, cb, t, ph, k1, k2, rf, nBeams) ==
  IF v = "part_000"
  THEN CASE cb = "CameraDrift"   -> CameraDriftFrame(t, ph)
         [] cb = "SceneLights"   -> SceneLightsFrame000(t, ph, rf)
         [] cb = "AICoreSphere"  -> SphereFrame000(t, ph, rf, nBeams)
         [] cb = "ParticleField" -> ParticleFrame000(t, rf)
  ELSE IF v = "part_001"
  THEN CASE cb = "AICoreSphere"  -> SphereFrame001(t, ph, k1, k2, rf, nBeams)
         [] cb = "ParticleField" -> ParticleFrame001(t, ph, rf)
  ELSE CASE cb = "SceneLights"   -> SceneLightsFrameChip(t, ph, rf)
         [] cb = "NeuralChip"    -> ChipFrame(t, ph, rf)
         [] cb = "ParticleField" -> ParticleFrameChip(t, rf)

\* every write of one frame, in the order the callbacks run
RECURSIVE FrameWrites(_, _, _, _, _, _, _, _)
FrameWrites(v, cbs, t, ph, k1, k2, rf, nBeams) ==
  IF cbs = <<>> THEN <<>>
  ELSE CallbackWrites(v, Head(cbs), t, ph, k1, k2, rf, nBeams) \o
       FrameWrites(v, Tail(cbs), t, ph, k1, k2, rf, nBeams)

\* the buffers of generated geometry a write can address by name and index
GeometryTargets == {"positions", "edgeColors", "matrices"}
IsGeometryWrite(w) == w[1][1] \in GeometryTargets

\* the animated properties after the writes ws[k..], applied in order
RECURSIVE ApplyWrites(_, _, _)
ApplyWrites(a, ws, k) ==
  IF k > Len(ws) THEN a
  ELSE ApplyWrites(IF IsGeometryWrite(ws[k]) THEN a
                   ELSE [a EXCEPT ![ws[k][1]] = ws[k][2]], ws, k + 1)

\* the generated geometry after the writes ws[k..]: a write into a buffer lands in it
RECURSIVE ApplyGeometryWrites(_, _, _)
ApplyGeometryWrites(g, ws, k) ==
  IF k > Len(ws) THEN g
  ELSE LET n == ws[k][1][1]
           i == ws[k][1][2]
       IN  ApplyGeometryWrites(
             IF n = "positions" THEN [g EXCEPT !.positions[i + 1] = ws[k][2]]
             ELSE IF n = "edgeColors" THEN [g EXCEPT !.edgeColors.array[i + 1] = ws[k][2]]
             ELSE IF n = "matrices" THEN [g EXCEPT !.matrices[i].x = ws[k][2]]
             ELSE g,
             ws, k + 1)

\* per property, the callbacks that wrote it, one entry per write
RECURSIVE LogWrites(_, _, _)
LogWrites(l, ws, k) ==
  IF k > Len(ws) THEN l
  ELSE LogWrites([l EXCEPT ![ws[k][1]] = Append(@, ws[k][3])], ws, k + 1)

NumBeams == IF IsSphere(variant) THEN Len(geo.beamObjects) ELSE 0

\* one display frame: every registered callback runs once, at the same elapsed time
Frame ==
  /\ pc = "mounted"
  /\ \E t \in clock..MaxTime, ph \in 0..4,
        k \in (IF variant = "part_001" THEN 0..2 ELSE {0}) :
       \E ws \in {FrameWrites(variant, Callbacks(variant), t, ph, k, k, refs, NumBeams)} :
           /\ anim' = ApplyWrites(anim, ws, 1)
           /\ geo' = ApplyGeometryWrites(geo, ws, 1)
           /\ wlog' = LogWrites([p \in DOMAIN anim \cup {ws[j][1] : j \in 1..Len(ws)} |-> <<>>],
                                ws, 1)
           /\ clock' = t
  /\ framed' = TRUE
  /\ UNCHANGED <<variant, pc, mounts, renders, rng, memo, ids, runs, loop, emissive,
                 refs, first>>

\* React renders the mounted components again
ReRender ==
  /\ pc = "mounted"
  /\ renders < MaxRenders
  /\ pc' = "render"
  /\ UNCHANGED <<variant, mounts, renders, rng, memo, ids, runs, geo, loop, emissive,
                 refs, anim, wlog, framed, clock, first>>

\* the view unmounts: refs detach, the objects and the hooks' memory are dropped
Unmount ==
  /\ pc = "mounted"
  /\ pc' = "idle"
  /\ refs' = {}
  /\ anim' = <<>>
  /\ wlog' = <<>>
  /\ renders' = 0
  /\ rng' = 0
  /\ memo' = [h \in Hooks(variant) |-> [set |-> FALSE, deps |-> <<>>]]
  /\ ids' = [h \in Hooks(variant) |-> NoId]
  /\ runs' = [h \in Hooks(variant) |-> 0]
  /\ geo' = EmptyGeo(variant)
  /\ loop' = EmptyLoop
  /\ emissive' = <<>>
  /\ framed' = FALSE
  /\ clock' = 0
  /\ UNCHANGED <<variant, mounts, first>>

Next ==
  \/ Mount
  \/ RenderA
  \/ PanelStep
  \/ RenderB
  \/ Commit
  \/ GreebleStep
  \/ GreebleDone
  \/ Frame
  \/ ReRender
  \/ Unmount

Spec == Init /\ [][Next]_vars

\* the scene with a ref that stays null
NextNullRef ==
  \/ Mount
  \/ RenderA
  \/ PanelStep
  \/ RenderB
  \/ Commit
  \/ CommitDetached
  \/ GreebleStep
  \/ GreebleDone
  \/ Frame
  \/ ReRender
  \/ Unmount

NullRefSpec == Init /\ [][NextNullRef]_vars

\* the panel loop is straight-line script: once entered, its next pass is taken
LiveSpec == Spec /\ WF_vars(PanelStep)

(* ------------------------------------------------------------------ *)
(* Properties                                                           *)
(* ------------------------------------------------------------------ *)
IsPrefix(a, b) == Len(a) <= Len(b) /\ \A k \in 1..Len(a) : a[k] = b[k]

\* C1: procedural generation is deterministic. Every mount of a scene generates the
\* geometry the first mount generated, and while a later mount is still drawing, the
\* k-th draw has produced what the k-th draw of the first mount produced: the panel
\* faces found so far and the greeble matrices written so far are those of the first.
C1_Deterministic ==
  first.set =>
    /\ pc = "mounted" => geo = first.geo
    /\ (pc = "panels" /\ IsSphere(variant)) =>
         IsPrefix(geo.faceIndices, first.geo.faceIndices)
    /\ pc = "greebles" =>
         \A k \in 0..(loop.idx - 1) :
           k < GreebleCount => geo.matrices[k] = first.geo.matrices[k]

\* a second mount of a scene has generated its geometry
C1_Witness ==
  /\ pc = "mounted"
  /\ mounts = 2
  /\ geo.positions # <<>>
  /\ geo = first.geo

\* C2: within one mounted view every generator (a useMemo callback or the
\* MicroGreebles effect) has run at most once, has run exactly once when the view is
\* mounted and so before any frame, and no frame or re-render runs it again.
C2_GeneratedOnce ==
  /\ \A h \in Hooks(variant) : runs[h] <= 1
  /\ (pc = "mounted" \/ framed) => \A h \in Hooks(variant) : runs[h] = 1

\* a view that ran a frame and was rendered again
C2_Witness ==
  /\ pc = "mounted"
  /\ framed
  /\ renders = 2
  /\ \A h \in Hooks(variant) : runs[h] = 1

\* the kinds of property a frame may write
AnimatedKinds ==
  {"group.rotation.y", "group.rotation.x", "group.position.y", "orbitRing.rotation.z",
   "orbitRing.rotation.x", "points.rotation.y", "points.rotation.x", "points.position.y",
   "movLight.position.x", "movLight.position.z",
   "camera.position.x", "camera.position.y", "camera.position.z",
   "camera.lookAt.x", "camera.lookAt.y", "camera.lookAt.z",
   "panelLight.intensity", "rimLight.intensity", "keyLight.intensity",
   "coreLight.intensity", "innerGlow.opacity", "beam.opacity"}

\* C3: a frame (the only step from a mounted view to a mounted view) leaves all
\* generated geometry and the greeble loop's result unchanged, and everything it
\* writes is an object rotation or position, the camera position or orientation, a
\* light intensity or a material opacity.
C3_FrameKeepsGeometry ==
  [][(pc = "mounted" /\ pc' = "mounted") =>
       /\ geo' = geo
       /\ loop' = loop
       /\ runs' = runs
       /\ \A p \in DOMAIN wlog' : wlog'[p] # <<>> => p[1] \in AnimatedKinds]_vars

\* a frame has run on a view whose geometry is complete and has written properties
C3_Witness ==
  /\ pc = "mounted"
  /\ framed
  /\ geo.positions # <<>>
  /\ \E p \in DOMAIN wlog : wlog[p] # <<>>

\* the original statement of C4: in a frame that has run, all animated properties
\* were written by the same single callback
C4_SingleCallback ==
  (framed /\ pc = "mounted") =>
    \E cb \in {Callbacks(variant)[k] : k \in 1..Len(Callbacks(variant))} :
      \A p \in DOMAIN anim : wlog[p] = <<cb>>

\* C4 (amended): in a frame every animated property of the scene is written exactly
\* once, by one of the frame callbacks the scene registered (four in part_000, two in
\* part_001, three in AIHeroScene.tsx), and nothing but an animated property is
\* written.
C4_WrittenOncePerFrame ==
  (framed /\ pc = "mounted") =>
    /\ DOMAIN wlog = DOMAIN anim
    /\ \A p \in DOMAIN anim :
         /\ Len(wlog[p]) = 1
         /\ \E k \in 1..Len(Callbacks(variant)) : wlog[p][1] = Callbacks(variant)[k]

\* a frame of part_000 in which two different callbacks have written
C4_Witness ==
  /\ framed
  /\ pc = "mounted"
  /\ variant = "part_000"
  /\ wlog[<<"camera.position.x", 0>>] = <<"CameraDrift">>
  /\ wlog[<<"beam.opacity", 9>>] = <<"AICoreSphere">>

Between(x, lo, hi) == lo <= x /\ x <= hi
A(name) == anim[<<name, 0>>]
BeamOpacities == {anim[p] : p \in {q \in DOMAIN anim : q[1] = "beam.opacity"}}
Opacities == BeamOpacities \cup {A("innerGlow.opacity")}
Intensities == {anim[p] : p \in {q \in DOMAIN anim :
                  q[1] \in {"panelLight.intensity", "rimLight.intensity",
                            "keyLight.intensity", "coreLight.intensity"}}}

InBand000(c) ==
  \/ c = <<150000, 1000000, 850000>>
  \/ c[1] = 50000 /\ Between(c[2], 720000, 825000) /\ Between(c[3], 580000, 650000)
  \/ c[1] = 20000 /\ Between(c[2], 250000, 330000) /\ Between(c[3], 220000, 280000)
InBand001(c) ==
  c \in {<<400000, 1000000, 1000000>>, <<0, 800000, 800000>>, <<0, 300000, 300000>>}
InBand(v, c) == IF v = "part_000" THEN InBand000(c) ELSE InBand001(c)

\* generator states at the ends of [0, 1) and on both sides of every threshold
\* (0.4, 0.75, 0.8 of 2147483646), with the first states of the generator seeded 42
ProbeStates ==
  {1, 2, 858993459, 858993460, 1073741824, 1610612735, 1610612736, 1717986917,
   1717986918, 2147483645, 2147483646, 705894, 1126542223, 1579310009}

\* C6: the edge colour buffer holds exactly 3 components per edge vertex, every vertex
\* has the colour of exactly one of the three brightness bands, and every component
\* is in [0, 1]; the same holds of the colour computed from any draw, at the ends of
\* [0, 1) and on each side of the thresholds.
C6_EdgeColours ==
  /\ (IsSphere(variant) /\ runs["edgeColors"] > 0) =>
       /\ geo.edgeColors.itemSize = 3
       /\ Len(geo.edgeColors.array) = 3 * EdgeVertexCount
       /\ \A i \in 0..(EdgeVertexCount - 1) :
            LET c == <<geo.edgeColors.array[3 * i + 1], geo.edgeColors.array[3 * i + 2],
                       geo.edgeColors.array[3 * i + 3]>>
            IN  /\ InBand(variant, c)
                /\ \A k \in 1..3 : Between(c[k], 0, 1000000)
  /\ pc = "idle" =>
       \A s \in ProbeStates : \A v \in {"part_000", "part_001"} :
         /\ InBand(v, EdgeColor(v, s))
         /\ \A k \in 1..3 : Between(EdgeColor(v, s)[k], 0, 1000000)

\* the buffer of part_000 is built and holds a vertex of each band
C6_Witness ==
  /\ variant = "part_000"
  /\ pc = "mounted"
  /\ \A r \in {150000, 50000, 20000} :
       \E i \in 0..(EdgeVertexCount - 1) : geo.edgeColors.array[3 * i + 1] = r

\* C7: two renders of a scene give every object the same initial properties: the
\* emissive intensity of every energy panel is the one the first render gave it.
C7_RenderDeterministic ==
  (pc = "mounted" /\ first.set) => emissive = first.emissive

AllDistinct(sq) == \A j, k \in 1..Len(sq) : j # k => sq[j] # sq[k]

\* C8: the MicroGreebles loop writes the instance matrices at 0, 1, 2, ... in this
\* order, no index skipped or repeated, never at or past the allocated capacity of
\* 200, and ends with the instance count 200.
C8_GreebleIndices ==
  variant = "AIHeroScene" =>
    /\ \A k \in 1..Len(loop.written) : loop.written[k] = k - 1
    /\ \A k \in 1..Len(loop.written) : loop.written[k] < geo.capacity
    /\ geo.capacity = 200
    /\ loop.idx = Len(loop.written)
    /\ pc = "mounted" => (Len(loop.written) = 200 /\ geo.count = 200)

\* the effect has finished: 200 matrices written, the count set, the update flagged
C8_Witness ==
  /\ variant = "AIHeroScene"
  /\ pc = "mounted"
  /\ Len(loop.written) = 200
  /\ geo.count = 200
  /\ geo.needsUpdate

\* C9: panel selection yields exactly 3 (part_000) or 4 (part_001) pairwise distinct
\* face indices, each in [0, totalFaces) with totalFaces = 80, so every panel reads
\* three existing vertices, and panelGeos[0] exists.
C9_PanelFaces ==
  (IsSphere(variant) /\ runs["panelGeos"] > 0) =>
    /\ TotalFaces = 80
    /\ Len(geo.faceIndices) = (IF variant = "part_000" THEN 3 ELSE 4)
    /\ AllDistinct(geo.faceIndices)
    /\ \A k \in 1..Len(geo.faceIndices) : geo.faceIndices[k] \in 0..(TotalFaces - 1)
    /\ Len(geo.panelGeos) = Len(geo.faceIndices)
    /\ Len(geo.panelGeos) >= 1
    /\ \A k \in 1..Len(geo.panelGeos) :
         /\ geo.panelGeos[k].face = geo.faceIndices[k]
         /\ \A j \in 1..3 : geo.panelGeos[k].verts[j] \in 0..(PosCount - 1)

\* the panels of part_001 are built
C9_Witness ==
  /\ variant = "part_001"
  /\ pc = "mounted"
  /\ Len(geo.panelGeos) = 4

\* C10: the panel-selection loop terminates: once the loop is entered, after finitely
\* many draws the wanted number of distinct faces (3 in part_000, 4 in part_001) is
\* in the set and the loop condition is false.
C10_PanelLoopTerminates ==
  (pc = "panels") ~>
    (/\ pc = "panels"
     /\ Len(geo.faceIndices) = (IF variant = "part_000" THEN 3 ELSE 4)
     /\ ~PanelLoopCond(variant, geo.faceIndices))

\* the loop of part_000 has been left with three faces
C10_Witness ==
  /\ variant = "part_000"
  /\ pc = "commit"
  /\ runs["panelGeos"] = 1
  /\ Len(geo.faceIndices) = 3

Abs(x) == IF x < 0 THEN -x ELSE x

\* the two circuit geometries of NeuralChip with their trace counts
CircuitGeos == << <<geo.denseCircuitGeo, 80>>, <<geo.activeCircuitGeo, 20>> >>
CircuitsBuilt ==
  variant = "AIHeroScene" /\ runs["denseCircuitGeo"] > 0 /\ runs["activeCircuitGeo"] > 0

\* C11: every trace of createCircuitGeo(80, 0.3, 42) and createCircuitGeo(20, 0.6, 99)
\* ends at a point (endX, endY) with |endX| <= 0.4 and |endY| <= 0.4 that is not the
\* centre (0, 0).  Stated outside the greeble loop, whose steps leave the traces alone.
C11_TraceEndsNearCentre ==
  (CircuitsBuilt /\ pc # "greebles") =>
    \A c \in 1..2 : \A i \in 1..CircuitGeos[c][2] :
      LET p3 == CircuitGeos[c][1][4 * i]
      IN  /\ Abs(p3[1]) <= 400000
          /\ Abs(p3[2]) <= 400000
          /\ p3 # <<0, 0, 0>>

\* both geometries are built, and a trace ends on the rim of the centre square
C11_Witness ==
  /\ CircuitsBuilt
  /\ pc = "commit"
  /\ Len(geo.denseCircuitGeo) = 320
  /\ \E i \in 1..80 : geo.denseCircuitGeo[4 * i][1] = 400000

\* C12: createCircuitGeo(count, variance, seed) emits 4 * count points, count traces
\* p1, p2, p2, p3: p1 -> p2 keeps x, p2 -> p3 keeps y, both segments share p2, and p1
\* lies on one of the lines x = +-1.3, y = +-1.3, the one chosen by an edge index that
\* is 0, 1, 2 or 3 for every draw.
C12_TraceShape ==
  /\ CircuitsBuilt =>
       \A c \in 1..2 :
         LET g == CircuitGeos[c][1]
             n == CircuitGeos[c][2]
         IN  /\ Len(g) = 4 * n
             /\ \A i \in 1..n :
                  LET p1 == g[4 * i - 3]
                      p2 == g[4 * i - 2]
                      q2 == g[4 * i - 1]
                      p3 == g[4 * i]
                  IN  /\ p1[1] = p2[1]
                      /\ q2 = p2
                      /\ q2[2] = p3[2]
                      /\ p1[3] = 0 /\ p2[3] = 0 /\ p3[3] = 0
                      /\ Abs(p1[1]) = 1300000 \/ Abs(p1[2]) = 1300000
  /\ pc = "idle" =>
       \A s \in ProbeStates :
         /\ FloorRand(s, 4) \in 0..3
         /\ \A vt \in {3, 6} :
              LET tr == CircuitTrace(vt, s, NextSeed(s), NextSeed(NextSeed(s)), s)
                  e  == FloorRand(s, 4)
              IN  /\ e = 0 => tr[1][2] = 1300000
                  /\ e = 1 => tr[1][1] = 1300000
                  /\ e = 2 => tr[1][2] = -1300000
                  /\ e = 3 => tr[1][1] = -1300000
                  /\ tr[2] = tr[3]
       /\ \A n \in 0..3 : Len(CreateCircuitGeo(n, 3, 42)) = 4 * n

\* the active circuit is built with 20 traces, one of them starting on the line x = 1.3
C12_Witness ==
  /\ CircuitsBuilt
  /\ pc = "commit"
  /\ Len(geo.activeCircuitGeo) = 80
  /\ \E i \in 1..20 : geo.activeCircuitGeo[4 * i - 3][1] = 1300000

\* the greeble instances placed so far
Placed == IF variant = "AIHeroScene" THEN 0..(loop.idx - 1) ELSE {}

\* C13: instances 0..99 lie in the rows (|y| in [1.0, 1.4), x in [-1.4, 1.4)), instances
\* 100..199 in the columns (|x| in [1.0, 1.4), y in [-1.4, 1.4)); every instance is
\* rotated by 0 or PI/2 about z and scaled (0.04, 0.08, 0.02); and each instance
\* takes exactly four draws: after i instances the generator seeded 1337 has been
\* called 4 * i times.
C13_GreebleRowsAndColumns ==
  variant = "AIHeroScene" =>
    /\ \A k \in Placed :
         LET m == geo.matrices[k]
         IN  /\ k < 100 =>
                  /\ Abs(m.y) >= 1000000 /\ Abs(m.y) < 1400000
                  /\ m.x >= -1400000 /\ m.x < 1400000
             /\ k >= 100 =>
                  /\ Abs(m.x) >= 1000000 /\ Abs(m.x) < 1400000
                  /\ m.y >= -1400000 /\ m.y < 1400000
             /\ m.rz \in {0, 1570796}
             /\ <<m.sx, m.sy, m.sz>> = <<40000, 80000, 20000>>
    /\ pc = "greebles" =>
         rng = (IF loop.i = 0 THEN SeededRandom(1337)
                ELSE Seeds(SeededRandom(1337), 4 * loop.i)[4 * loop.i])

\* the loop has placed the rows and has begun the columns
C13_Witness ==
  /\ variant = "AIHeroScene"
  /\ pc = "greebles"
  /\ loop.i = 101
  /\ Abs(geo.matrices[100].x) >= 1000000
  /\ Abs(geo.matrices[0].y) >= 1000000

\* C14: no greeble centre is inside the open square |x| < 1.0, |y| < 1.0 over the core
\* assembly, and every centre is on the substrate: |x| < 1.6 and |y| < 1.6.
C14_GreeblesClearOfCore ==
  \A k \in Placed :
    LET m == geo.matrices[k]
    IN  /\ ~(Abs(m.x) < 1000000 /\ Abs(m.y) < 1000000)
        /\ Abs(m.x) < 1600000
        /\ Abs(m.y) < 1600000

\* all 200 instances are placed, one of them with |x| < 1.0 (so it is its |y| that
\* keeps it off the core)
C14_Witness ==
  /\ variant = "AIHeroScene"
  /\ pc = "greebles"
  /\ loop.i = 200
  /\ Placed = 0..199
  /\ \E k \in 0..99 : Abs(geo.matrices[k].x) < 1000000

\* pin j (from 0) of a vertex list: its six vertices, and its centre
PinVertices(g, j) == [k \in 1..6 |-> g[6 * j + k]]
PinCentre(g, j) ==
  <<(g[6 * j + 1][1] + g[6 * j + 3][1]) \div 2, (g[6 * j + 1][2] + g[6 * j + 3][2]) \div 2>>
\* the pins of a side: the pin pushed k-th (k = 0 top, 1 bottom, 2 right, 3 left) for i
SidePin(i, k) == 4 * i + k

C16_BeamsRadiateOutward ==
  (IsSphere(variant) /\ runs["beamObjects"] > 0) =>
    /\ Len(geo.beamObjects) = (IF variant = "part_000" THEN 10 ELSE 15)
    /\ \A i \in 1..Len(geo.beamObjects) :
         LET b == geo.beamObjects[i]
         IN  /\ b.idx \in 0..(PosCount - 1)
             /\ variant = "part_000" => (b.len >= 3000000 /\ b.len < 7000000)
             /\ variant = "part_001" => (b.len >= 4000000 /\ b.len < 9000000)
             /\ BeamStart(b) = 1900000
             /\ BeamStart(b) > 0
             /\ BeamEnd(b) > IcoRadius
             /\ Abs(BeamEnd(b)) > Abs(BeamStart(b))

\* the fifteen beams of part_001 are built, at different vertices
C16_Witness ==
  /\ variant = "part_001"
  /\ pc = "commit"
  /\ Len(geo.beamObjects) = 15
  /\ \E i, j \in 1..15 : geo.beamObjects[i].idx # geo.beamObjects[j].idx

\* the callbacks cbs in the order f, a permutation of their positions
Reordered(cbs, f) == [i \in 1..Len(cbs) |-> cbs[f[i]]]
\* the properties a list of writes addresses
WriteTargets(ws) == {ws[j][1] : j \in 1..Len(ws)}
\* the Math.random() samples a frame of the scene can see
RandomChoices == IF variant = "part_001" THEN 0..2 ELSE {0}

\* C17: in a mounted view the frame callbacks of the scene write pairwise disjoint
\* sets of properties, and the animated state after a frame is the same whichever
\* order the callbacks of the frame run in (the orders are tried in every state of
\* the view before it is rendered again).
C17_OrderIndependent ==
  pc = "mounted" =>
    LET cbs == Callbacks(variant)
        n   == Len(cbs)
        ts  == [a \in 1..n |->
                  WriteTargets(CallbackWrites(variant, cbs[a], clock, 0, 0, 0, refs, NumBeams))]
    IN  /\ \A a, b \in 1..n : a # b => ts[a] \cap ts[b] = {}
        /\ renders = 1 =>
             \A ph \in 0..4 : \A k \in RandomChoices :
               \A f \in Permutations(1..n) :
                 ApplyWrites(anim, FrameWrites(variant, Reordered(cbs, f), clock, ph, k, k,
                                               refs, NumBeams), 1)
                   = ApplyWrites(anim, FrameWrites(variant, cbs, clock, ph, k, k,
                                                   refs, NumBeams), 1)

\* a frame of part_000 has run in which all four callbacks have written
C17_Witness ==
  /\ variant = "part_000"
  /\ pc = "mounted"
  /\ framed
  /\ {wlog[p][1] : p \in {q \in DOMAIN wlog : wlog[q] # <<>>}}
       = {"CameraDrift", "SceneLights", "AICoreSphere", "ParticleField"}

\* the ref whose presence guards the writes of a property ("none": written unguarded)
GuardRef(p) ==
  CASE p[1] \in {"group.rotation.x", "group.rotation.y", "group.position.y"} -> "groupRef"
    [] p[1] = "panelLight.intensity" -> "panelLightRef"
    [] p[1] = "innerGlow.opacity" -> "innerGlowRef"
    [] p[1] \in {"orbitRing.rotation.z", "orbitRing.rotation.x"} -> "orbitRingRef"
    [] p[1] = "rimLight.intensity" -> "rimRef"
    [] p[1] = "keyLight.intensity" -> "keyRef"
    [] p[1] = "coreLight.intensity" -> "coreLightRef"
    [] p[1] \in {"movLight.position.x", "movLight.position.z"} -> "movLight"
    [] p[1] \in {"points.rotation.y", "points.rotation.x", "points.position.y"} -> "pointsRef"
    [] OTHER -> "none"

\* C18: a frame writes nothing to a property whose guarding ref is null, leaves its
\* value as it was, and writes every other animated property once; and a commit in
\* which the mesh ref of MicroGreebles is null ends the layout effect at once: no
\* matrix is set, no draw is taken, the loop is not entered.
C18_NullRefsSkipped ==
  [][
      /\ (pc = "mounted" /\ pc' = "mounted") =>
           (\A p \in DOMAIN anim :
              IF GuardRef(p) = "none" \/ GuardRef(p) \in refs
              THEN Len(wlog'[p]) = 1
              ELSE (wlog'[p] = <<>> /\ anim'[p] = anim[p]))
      /\ (pc = "commit" /\ variant = "AIHeroScene" /\ "meshRef" \notin refs') =>
           (/\ pc' = "mounted"
            /\ geo' = geo
            /\ rng' = rng
            /\ loop' = loop
            /\ runs' = runs)
  ]_vars

\* a frame of part_001 has run while the ref of the orbit ring was null: the ring was
\* not written, the group and the beams were
C18_Witness ==
  /\ variant = "part_001"
  /\ pc = "mounted"
  /\ framed
  /\ "orbitRingRef" \notin refs
  /\ wlog[<<"orbitRing.rotation.z", 0>>] = <<>>
  /\ wlog[<<"group.rotation.y", 0>>] = <<"AICoreSphere">>
  /\ wlog[<<"beam.opacity", 0>>] = <<"AICoreSphere">>

\* the squared distance, in milli-units, of the camera from the centre (1.6, 0, 0) of
\* the sphere group
CameraDistSq ==
  LET dx == (A("camera.position.x") - 1600000) \div 1000
      dy == A("camera.position.y") \div 1000
      dz == A("camera.position.z") \div 1000
  IN  dx * dx + dy * dy + dz * dz

C20_ParticleBox ==
  (runs["positions"] > 0 /\ pc = "commit" /\ renders = 0) =>
    LET ps    == geo.positions
        n     == IF variant = "part_000" THEN 500 ELSE 400
        half  == IF variant = "part_000" THEN <<12500000, 8000000, 10000000>>
                 ELSE <<15000000, 10000000, 7500000>>
        s1    == NextSeed(SeededRandom(999))
        s2    == NextSeed(s1)
        s3    == NextSeed(s2)
        s4    == NextSeed(s3)
    IN  /\ Len(ps) = 3 * n
        /\ \A j \in 1..Len(ps) :
             /\ ps[j] >= -half[((j - 1) % 3) + 1]
             /\ ps[j] < half[((j - 1) % 3) + 1]
        /\ ps[1] = (RandMilli(s1) - 500) * (half[1] \div 500)
        /\ ps[2] = (RandMilli(s2) - 500) * (half[2] \div 500)
        /\ ps[3] = (RandMilli(s3) - 500) * (half[3] \div 500)
        /\ ps[4] = (RandMilli(s4) - 500) * (half[1] \div 500)
        /\ variant = "part_001" => ps = ParticlePositions("AIHeroScene")
        /\ variant = "AIHeroScene" => ps = ParticlePositions("part_001")

\* the chip scene has built its 1200 numbers, not all in one octant
C20_Witness ==
  /\ variant = "AIHeroScene"
  /\ pc = "commit"
  /\ Len(geo.positions) = 1200
  /\ \E j \in 1..1200 : geo.positions[j] < 0
  /\ \E j \in 1..1200 : geo.positions[j] > 0

====
